---- MODULE Spec2Model ----
(***************************************************************************)
(* Model of simretina/retina.py: the four wrapper functions around the     *)
(* cv2.bioinspired retina handle (init_retina, clear_buffers,              *)
(* get_opl_frame, grey2color, get_opl_frames).                             *)
(*                                                                         *)
(* Python values are records with a "type" field.  An ndarray carries its  *)
(* shape and a data function from 0-based index tuples to pixel values.    *)
(* The retina handle is external and opaque: every call made on it is      *)
(* appended to the log `calls`, run may fail, and the fetched outputs are  *)
(* chosen nondeterministically.                                            *)
(***************************************************************************)
EXTENDS Integers, Sequences, FiniteSets, TLC

\* ------------------------------------------------------------------ bounds
MaxDim == 2        \* largest height / width of an enumerated array
MaxVal == 1        \* pixel values are 0..MaxVal
MaxFrames == 2     \* longest frame sequence passed to get_opl_frames
MaxSizeLen == 3    \* longest size descriptor passed to init_retina
MaxSide == 2       \* largest height / width in a size descriptor

\* ------------------------------------------------------------ python values
None == [type |-> "NoneType"]

Unbound == [type |-> "unbound"]

NdArray(shape, data) == [type |-> "ndarray", shape |-> shape, data |-> data]

PyList(items) == [type |-> "list", items |-> items]

PyTuple(items) == [type |-> "tuple", items |-> items]

Retina(arg) == [type |-> "Retina", size |-> arg]

\* 0-based index tuples of an array of the given shape (rank 0..3)
Indices(shape) ==
    CASE Len(shape) = 0 -> {<<>>}
      [] Len(shape) = 1 -> {<<a>> : a \in 0..(shape[1] - 1)}
      [] Len(shape) = 2 -> {<<a, b>> : a \in 0..(shape[1] - 1), b \in 0..(shape[2] - 1)}
      [] Len(shape) = 3 -> {<<a, b, c>> : a \in 0..(shape[1] - 1),
                                          b \in 0..(shape[2] - 1),
                                          c \in 0..(shape[3] - 1)}

ndim(a) == Len(a.shape)

\* np.tile(a, reps) for len(reps) = 3 and a.ndim <= 3: the shape of a is
\* promoted to three dimensions by prepending ones, every axis is repeated
\* reps[k] times, element idx of the result is element (idx mod promoted
\* shape) of a.
Tile(a, reps) ==
    LET d == ndim(a)
        p == [k \in 1..3 |-> IF k <= 3 - d THEN 1 ELSE a.shape[k - (3 - d)]]
        shape == <<p[1] * reps[1], p[2] * reps[2], p[3] * reps[3]>>
        src(idx) == LET q == <<idx[1] % p[1], idx[2] % p[2], idx[3] % p[3]>>
                    IN  SubSeq(q, 3 - d + 1, 3)
    IN  NdArray(shape, [idx \in Indices(shape) |-> a.data[src(idx)]])

\* np.transpose(a, axes) for a.ndim = 3 (axes 0-based): axis k of the result
\* is axis axes[k] of a.
Transpose(a, axes) ==
    LET shape == <<a.shape[axes[1] + 1], a.shape[axes[2] + 1], a.shape[axes[3] + 1]>>
        inv(m) == CHOOSE k \in 1..3 : axes[k] = m
        src(idx) == <<idx[inv(0)], idx[inv(1)], idx[inv(2)]>>
    IN  NdArray(shape, [idx \in Indices(shape) |-> a.data[src(idx)]])

\* grey2color, line 86: the rank check
\* variant: only ranks below 2 are rejected
grey2color_mut_raises(frame) == ndim(frame) < 2

grey2color_raises(frame) == ndim(frame) # 2

\* grey2color, line 89: duplication into three channels
\* variant: axes (2, 1, 0), which also swaps height and width
grey2color_mut(frame) == Transpose(Tile(frame, <<3, 1, 1>>), <<2, 1, 0>>)

grey2color(frame) == Transpose(Tile(frame, <<3, 1, 1>>), <<1, 2, 0>>)

\* --------------------------------------------------------------- input sets
Vals == 0..MaxVal

Shapes(rank) ==
    CASE rank = 0 -> {<<>>}
      [] rank = 1 -> {<<h>> : h \in 0..MaxDim}
      [] rank = 2 -> {<<h, w>> : h \in 0..MaxDim, w \in 0..MaxDim}
      [] rank = 3 -> {<<h, w, 3>> : h \in 1..MaxDim, w \in 1..MaxDim}

\* every array of rank 0, 1 and 2 within the bounds, empty ones included
FullArrays(rank) ==
    UNION {{NdArray(sh, d) : d \in [Indices(sh) -> Vals]} : sh \in Shapes(rank)}

\* rank-3 arrays (h, w, 3) whose pixels all carry the same three channels
ColorArrays ==
    UNION {{NdArray(sh, [idx \in Indices(sh) |-> p[idx[3] + 1]]) : p \in [1..3 -> Vals]}
           : sh \in Shapes(3)}

Arrays == FullArrays(0) \cup FullArrays(1) \cup FullArrays(2) \cup ColorArrays

Grey1(v) == NdArray(<<1, 1>>, [idx \in Indices(<<1, 1>>) |-> v])

Color1(v) == NdArray(<<1, 1, 3>>, [idx \in Indices(<<1, 1, 3>>) |-> v])

\* frames fed to the handle by get_opl_frame / get_opl_frames
SeqFrames == {Grey1(0), Grey1(1), Color1(0)}

\* arrays the handle may hand back from getParvo / getMagno
LibOut == {Grey1(0), Grey1(1), Color1(1)}

SeqsUpTo(S, n) == UNION {[1..k -> S] : k \in 0..n}

FrameLists == {PyList(s) : s \in SeqsUpTo(SeqFrames, MaxFrames)}

\* arguments that are not lists: tuples, arrays, None, an unsized iterator
NonLists ==
    {PyTuple(s) : s \in SeqsUpTo({Grey1(0)}, 1)}
        \cup {Grey1(1), NdArray(<<>>, [idx \in Indices(<<>>) |-> 0])}
        \cup {None, [type |-> "generator"]}

Sizes == SeqsUpTo(1..MaxSide, MaxSizeLen)

\* len(x): defined for lists, tuples and arrays of rank >= 1, TypeError otherwise
has_len(x) ==
    \/ x.type \in {"list", "tuple"}
    \/ x.type = "ndarray" /\ ndim(x) >= 1

py_len(x) == IF x.type = "ndarray" THEN x.shape[1] ELSE Len(x.items)

\* -------------------------------------------------------------------- state
VARIABLES
    pc,            \* position in the running function
    op,            \* the function the caller invoked
    size,          \* init_retina: size
    frame,         \* grey2color / get_opl_frame: frame; loop variable of get_opl_frames
    frames,        \* get_opl_frames: frames
    get_parvo, get_magno, reopen_eye, color_mode,
    i,             \* number of frames the for loop has taken from frames
    parvo_frame, magno_frame,     \* locals of get_opl_frame
    out_frames,                   \* local of get_opl_frames
    parvo_frames, magno_frames,   \* locals of get_opl_frames
    calls,         \* calls made on the retina handle / the library, in order
    result,        \* value returned to the caller
    exc            \* exception raised to the caller

vars == <<pc, op, size, frame, frames, get_parvo, get_magno, reopen_eye, color_mode,
          i, parvo_frame, magno_frame, out_frames, parvo_frames, magno_frames,
          calls, result, exc>>

args == <<op, size, frames, get_parvo, get_magno, reopen_eye, color_mode>>

locals == <<i, parvo_frame, magno_frame, out_frames, parvo_frames, magno_frames>>

Init ==
    /\ pc = "idle"
    /\ op = "none"
    /\ size = <<>>
    /\ frame = Unbound
    /\ frames = Unbound
    /\ get_parvo = TRUE
    /\ get_magno = TRUE
    /\ reopen_eye = TRUE
    /\ color_mode = "color"
    /\ i = 0
    /\ parvo_frame = Unbound
    /\ magno_frame = Unbound
    /\ out_frames = Unbound
    /\ parvo_frames = Unbound
    /\ magno_frames = Unbound
    /\ calls = <<>>
    /\ result = Unbound
    /\ exc = "none"

\* ------------------------------------------------------------ the caller
CallInitRetina ==
    /\ pc = "idle"
    /\ \E s \in Sizes : size' = s
    /\ op' = "init_retina"
    /\ pc' = "init_retina"
    /\ UNCHANGED <<frame, frames, get_parvo, get_magno, reopen_eye, color_mode,
                   locals, calls, result, exc>>

CallGrey2Color ==
    /\ pc = "idle"
    /\ \E a \in Arrays : frame' = a
    /\ op' = "grey2color"
    /\ pc' = "grey2color"
    /\ UNCHANGED <<size, frames, get_parvo, get_magno, reopen_eye, color_mode,
                   locals, calls, result, exc>>

CallGetOplFrame ==
    /\ pc = "idle"
    /\ \E f \in SeqFrames : frame' = f
    /\ get_parvo' \in BOOLEAN
    /\ get_magno' \in BOOLEAN
    /\ color_mode' \in {"color", "grey"}
    /\ op' = "get_opl_frame"
    /\ pc' = "run"
    /\ UNCHANGED <<size, frames, reopen_eye, locals, calls, result, exc>>

CallGetOplFrames ==
    /\ pc = "idle"
    /\ \E fs \in FrameLists \cup NonLists : frames' = fs
    /\ get_parvo' \in BOOLEAN
    /\ get_magno' \in BOOLEAN
    /\ reopen_eye' \in BOOLEAN
    /\ color_mode' \in {"color", "grey"}
    /\ op' = "get_opl_frames"
    /\ pc' = "frames_check"
    /\ UNCHANGED <<size, frame, locals, calls, result, exc>>

\* ---------------------------------------------------------- init_retina
\* lines 20-23
\* variant: the size is passed on as (h, w), not reversed
init_retina_mut ==
    /\ pc = "init_retina"
    /\ IF Len(size) # 2
         THEN /\ exc' = "ValueError"
              /\ pc' = "raised"
              /\ UNCHANGED <<calls, result>>
         ELSE /\ calls' = Append(calls, <<"createRetina", <<size[1], size[2]>>>>)
              /\ result' = Retina(<<size[1], size[2]>>)
              /\ pc' = "done"
              /\ exc' = exc
    /\ UNCHANGED <<args, frame, locals>>

init_retina ==
    /\ pc = "init_retina"
    /\ IF Len(size) # 2
         THEN /\ exc' = "ValueError"
              /\ pc' = "raised"
              /\ UNCHANGED <<calls, result>>
         ELSE /\ calls' = Append(calls, <<"createRetina", <<size[2], size[1]>>>>)
              /\ result' = Retina(<<size[2], size[1]>>)
              /\ pc' = "done"
              /\ exc' = exc
    /\ UNCHANGED <<args, frame, locals>>

\* ------------------------------------------------------------ grey2color
\* lines 86-89, called directly
Grey2ColorCall ==
    /\ pc = "grey2color"
    /\ IF grey2color_raises(frame)
         THEN /\ exc' = "ValueError"
              /\ pc' = "raised"
              /\ result' = result
         ELSE /\ result' = grey2color(frame)
              /\ pc' = "done"
              /\ exc' = exc
    /\ UNCHANGED <<args, frame, locals, calls>>

\* --------------------------------------------------------- get_opl_frame
\* value handed back by get_opl_frame: to the caller when called directly,
\* to out_frames of get_opl_frames otherwise
Nested == op = "get_opl_frames"

\* line 55: retina.run(frame); the library may reject the frame
\* variant: a failure of run is swallowed
Run_mut ==
    /\ pc = "run"
    /\ \E ok \in BOOLEAN : calls' = Append(calls, <<"run", frame, ok>>)
    /\ pc' = "getParvo"
    /\ UNCHANGED <<args, frame, locals, result, exc>>

Run ==
    /\ pc = "run"
    /\ \E ok \in BOOLEAN :
         /\ calls' = Append(calls, <<"run", frame, ok>>)
         /\ IF ok
              THEN pc' = "getParvo" /\ exc' = exc
              ELSE pc' = "raised" /\ exc' = "LibError"
    /\ UNCHANGED <<args, frame, locals, result>>

\* line 57: parvo_frame = retina.getParvo()
GetParvo ==
    /\ pc = "getParvo"
    /\ \E out \in LibOut :
         /\ parvo_frame' = out
         /\ calls' = Append(calls, <<"getParvo", out>>)
    /\ pc' = "getMagno"
    /\ UNCHANGED <<args, frame, i, magno_frame, out_frames, parvo_frames, magno_frames,
                   result, exc>>

\* line 58: magno_frame = retina.getMagno()
GetMagno ==
    /\ pc = "getMagno"
    /\ \E out \in LibOut :
         /\ magno_frame' = out
         /\ calls' = Append(calls, <<"getMagno", out>>)
    /\ pc' = "convertParvo"
    /\ UNCHANGED <<args, frame, i, parvo_frame, out_frames, parvo_frames, magno_frames,
                   result, exc>>

\* lines 60-61: if color_mode == "grey": parvo_frame = grey2color(parvo_frame)
ConvertParvo ==
    /\ pc = "convertParvo"
    /\ IF color_mode = "grey"
         THEN IF grey2color_raises(parvo_frame)
                THEN /\ exc' = "ValueError"
                     /\ pc' = "raised"
                     /\ parvo_frame' = parvo_frame
                ELSE /\ parvo_frame' = grey2color(parvo_frame)
                     /\ pc' = "convertMagno"
                     /\ exc' = exc
         ELSE /\ pc' = "convertMagno"
              /\ UNCHANGED <<parvo_frame, exc>>
    /\ UNCHANGED <<args, frame, i, magno_frame, out_frames, parvo_frames, magno_frames,
                   calls, result>>

\* line 63: magno_frame = grey2color(magno_frame)
\* variant: the magno frame is converted in "grey" mode only, like the parvo frame
ConvertMagno_mut ==
    /\ pc = "convertMagno"
    /\ IF color_mode = "grey"
         THEN IF grey2color_raises(magno_frame)
                THEN /\ exc' = "ValueError"
                     /\ pc' = "raised"
                     /\ magno_frame' = magno_frame
                ELSE /\ magno_frame' = grey2color(magno_frame)
                     /\ pc' = "return"
                     /\ exc' = exc
         ELSE /\ pc' = "return"
              /\ UNCHANGED <<magno_frame, exc>>
    /\ UNCHANGED <<args, frame, i, parvo_frame, out_frames, parvo_frames, magno_frames,
                   calls, result>>

ConvertMagno ==
    /\ pc = "convertMagno"
    /\ IF grey2color_raises(magno_frame)
         THEN /\ exc' = "ValueError"
              /\ pc' = "raised"
              /\ magno_frame' = magno_frame
         ELSE /\ magno_frame' = grey2color(magno_frame)
              /\ pc' = "return"
              /\ exc' = exc
    /\ UNCHANGED <<args, frame, i, parvo_frame, out_frames, parvo_frames, magno_frames,
                   calls, result>>

\* lines 65-70: the value returned, by flags; falling off the end returns None
\* variant: the pair is returned as (magno, parvo)
ReturnValue_mut(gp, gm, parvo, magno) ==
    IF gp = FALSE /\ gm = TRUE THEN magno
    ELSE IF gp = TRUE /\ gm = FALSE THEN parvo
    ELSE IF gp = TRUE /\ gm = TRUE THEN PyTuple(<<magno, parvo>>)
    ELSE None

ReturnValue(gp, gm, parvo, magno) ==
    IF gp = FALSE /\ gm = TRUE THEN magno
    ELSE IF gp = TRUE /\ gm = FALSE THEN parvo
    ELSE IF gp = TRUE /\ gm = TRUE THEN PyTuple(<<parvo, magno>>)
    ELSE None

Return ==
    /\ pc = "return"
    /\ LET v == ReturnValue(get_parvo, get_magno, parvo_frame, magno_frame)
       IN  IF Nested
             THEN /\ out_frames' = v
                  /\ pc' = "frames_append"
                  /\ result' = result
             ELSE /\ result' = v
                  /\ pc' = "done"
                  /\ out_frames' = out_frames
    /\ UNCHANGED <<args, frame, i, parvo_frame, magno_frame, parvo_frames, magno_frames,
                   calls, exc>>

\* -------------------------------------------------------- get_opl_frames
\* lines 111-112: len(frames) is evaluated first and raises TypeError on an
\* object without a length
FramesCheck ==
    /\ pc = "frames_check"
    /\ IF ~has_len(frames)
         THEN exc' = "TypeError" /\ pc' = "raised"
         ELSE IF py_len(frames) = 0 \/ frames.type # "list"
                THEN exc' = "ValueError" /\ pc' = "raised"
                ELSE exc' = exc /\ pc' = "frames_reopen"
    /\ UNCHANGED <<args, frame, locals, calls, result>>

\* lines 114-115 and 26-28: if reopen_eye is True: clear_buffers(retina)
\* variant: the buffers are never cleared
FramesReopen_mut ==
    /\ pc = "frames_reopen"
    /\ calls' = calls
    /\ pc' = "frames_alloc"
    /\ UNCHANGED <<args, frame, locals, result, exc>>

FramesReopen ==
    /\ pc = "frames_reopen"
    /\ calls' = IF reopen_eye = TRUE THEN Append(calls, <<"clearBuffers">>) ELSE calls
    /\ pc' = "frames_alloc"
    /\ UNCHANGED <<args, frame, locals, result, exc>>

\* lines 117-120: the output lists, one per flag
FramesAlloc ==
    /\ pc = "frames_alloc"
    /\ parvo_frames' = IF get_parvo = TRUE THEN PyList(<<>>) ELSE parvo_frames
    /\ magno_frames' = IF get_magno = TRUE THEN PyList(<<>>) ELSE magno_frames
    /\ pc' = "frames_for"
    /\ UNCHANGED <<args, frame, i, parvo_frame, magno_frame, out_frames, calls, result, exc>>

\* line 122: for frame in frames
\* variant: the frames are taken from the end of the list
NextFrame_mut(items, n) == items[Len(items) - n]

NextFrame(items, n) == items[n + 1]

FramesFor ==
    /\ pc = "frames_for"
    /\ IF i < Len(frames.items)
         THEN /\ frame' = NextFrame(frames.items, i)
              /\ i' = i + 1
              /\ pc' = "run"
         ELSE /\ pc' = "frames_return"
              /\ UNCHANGED <<frame, i>>
    /\ UNCHANGED <<args, parvo_frame, magno_frame, out_frames, parvo_frames, magno_frames,
                   calls, result, exc>>

\* lines 126-132: append the outputs of this frame
\* variant: with a single flag the list is replaced, not extended
FramesAppend_mut ==
    /\ pc = "frames_append"
    /\ IF get_parvo = TRUE /\ get_magno = TRUE
         THEN /\ parvo_frames' = PyList(Append(parvo_frames.items, out_frames.items[1]))
              /\ magno_frames' = PyList(Append(magno_frames.items, out_frames.items[2]))
         ELSE IF get_parvo = TRUE /\ get_magno = FALSE
                THEN /\ parvo_frames' = PyList(<<out_frames>>)
                     /\ magno_frames' = magno_frames
         ELSE IF get_parvo = FALSE /\ get_magno = TRUE
                THEN /\ magno_frames' = PyList(<<out_frames>>)
                     /\ parvo_frames' = parvo_frames
         ELSE UNCHANGED <<parvo_frames, magno_frames>>
    /\ pc' = "frames_for"
    /\ UNCHANGED <<args, frame, i, parvo_frame, magno_frame, out_frames, calls, result, exc>>

FramesAppend ==
    /\ pc = "frames_append"
    /\ IF get_parvo = TRUE /\ get_magno = TRUE
         THEN /\ parvo_frames' = PyList(Append(parvo_frames.items, out_frames.items[1]))
              /\ magno_frames' = PyList(Append(magno_frames.items, out_frames.items[2]))
         ELSE IF get_parvo = TRUE /\ get_magno = FALSE
                THEN /\ parvo_frames' = PyList(Append(parvo_frames.items, out_frames))
                     /\ magno_frames' = magno_frames
         ELSE IF get_parvo = FALSE /\ get_magno = TRUE
                THEN /\ magno_frames' = PyList(Append(magno_frames.items, out_frames))
                     /\ parvo_frames' = parvo_frames
         ELSE UNCHANGED <<parvo_frames, magno_frames>>
    /\ pc' = "frames_for"
    /\ UNCHANGED <<args, frame, i, parvo_frame, magno_frame, out_frames, calls, result, exc>>

\* lines 134-139: the lists returned, by flags; falling off the end returns None
FramesReturn ==
    /\ pc = "frames_return"
    /\ result' = IF get_parvo = TRUE /\ get_magno = TRUE
                   THEN PyTuple(<<parvo_frames, magno_frames>>)
                 ELSE IF get_parvo = TRUE /\ get_magno = FALSE THEN parvo_frames
                 ELSE IF get_parvo = FALSE /\ get_magno = TRUE THEN magno_frames
                 ELSE None
    /\ pc' = "done"
    /\ UNCHANGED <<args, frame, locals, calls, exc>>

\* ------------------------------------------------------- specification
Next ==
    \/ CallInitRetina
    \/ CallGrey2Color
    \/ CallGetOplFrame
    \/ CallGetOplFrames
    \/ init_retina
    \/ Grey2ColorCall
    \/ Run
    \/ GetParvo
    \/ GetMagno
    \/ ConvertParvo
    \/ ConvertMagno
    \/ Return
    \/ FramesCheck
    \/ FramesReopen
    \/ FramesAlloc
    \/ FramesFor
    \/ FramesAppend
    \/ FramesReturn

Spec == Init /\ [][Next]_vars

\* ------------------------------------------------------------ properties
IsRun(e) == e[1] = "run"

IsClear(e) == e[1] = "clearBuffers"

RunEntries == SelectSeq(calls, IsRun)

ClearCount == Len(SelectSeq(calls, IsClear))

InFrames == op = "get_opl_frames"

ValidFrames == frames.type = "list" /\ Len(frames.items) > 0

\* calls on the handle made for the k-th frame of a get_opl_frames call
Base == IF reopen_eye = TRUE THEN 1 ELSE 0

RunAt(k) == calls[Base + 3 * (k - 1) + 1]

ParvoAt(k) == calls[Base + 3 * (k - 1) + 2]

MagnoAt(k) == calls[Base + 3 * (k - 1) + 3]

IsThreeChannel(a) == a.type = "ndarray" /\ ndim(a) = 3 /\ a.shape[3] = 3

\* C1: in a get_opl_frames call on a valid non-empty list with
\* reopen_eye=True, nothing is called on the handle before the clear, the
\* clear is the first call on the handle, and it is the only clear of the
\* call (none between or after frames).
C1_ClearOnceBeforeFirstFrame ==
    (InFrames /\ ValidFrames /\ reopen_eye = TRUE) =>
        IF pc \in {"frames_check", "frames_reopen"}
          THEN calls = <<>>
          ELSE /\ Len(calls) >= 1
               /\ IsClear(calls[1])
               /\ ClearCount = 1

C1_Witness ==
    /\ InFrames /\ pc = "done" /\ reopen_eye = TRUE
    /\ Len(frames.items) = 2
    /\ Len(RunEntries) = 2
    /\ IsClear(calls[1])

\* C2: get_opl_frames feeds the handle the frames in input order, each
\* exactly once, and the k-th element of every returned list is the output
\* of get_opl_frame for the parvo / magno array fetched right after feeding
\* frames[k].
C2_FramesInOrder ==
    InFrames =>
        /\ \A k \in 1..Len(RunEntries) : RunEntries[k][2] = frames.items[k]
        /\ pc = "done" =>
             LET n == Len(frames.items)
                 plist == IF get_magno = TRUE THEN result.items[1] ELSE result
                 mlist == IF get_parvo = TRUE THEN result.items[2] ELSE result
             IN  /\ Len(calls) = Base + 3 * n
                 /\ \A k \in 1..n :
                      /\ RunAt(k) = <<"run", frames.items[k], TRUE>>
                      /\ ParvoAt(k)[1] = "getParvo"
                      /\ MagnoAt(k)[1] = "getMagno"
                      /\ get_parvo = TRUE =>
                           plist.items[k] = IF color_mode = "grey"
                                              THEN grey2color(ParvoAt(k)[2])
                                              ELSE ParvoAt(k)[2]
                      /\ get_magno = TRUE =>
                           mlist.items[k] = grey2color(MagnoAt(k)[2])

C2_Witness ==
    /\ InFrames /\ pc = "done"
    /\ get_parvo = TRUE /\ get_magno = TRUE /\ color_mode = "color"
    /\ Len(frames.items) = 2
    /\ frames.items[1] # frames.items[2]
    /\ result.items[1].items[1] # result.items[1].items[2]
    /\ result.items[1].items[1] = ParvoAt(1)[2]

\* C3: get_opl_frames on an empty list or on any argument that is not a
\* list raises ValueError, whatever the flags.
C3_InvalidFramesValueError ==
    (InFrames /\ ~ValidFrames /\ pc # "frames_check") =>
        (pc = "raised" /\ exc = "ValueError")

\* C4: when get_opl_frame has converted its outputs, the magno frame is the
\* 3-channel duplication of the fetched magno output in both color modes,
\* and the parvo frame is the duplication of the fetched parvo output in
\* "grey" mode and the fetched parvo output itself otherwise.
C4_MagnoAlwaysParvoOnlyGrey ==
    pc \in {"return", "frames_append"} \/ (pc = "done" /\ op = "get_opl_frame") =>
        LET parvo0 == calls[Len(calls) - 1][2]
            magno0 == calls[Len(calls)][2]
        IN  /\ magno_frame = grey2color(magno0)
            /\ IsThreeChannel(magno_frame)
            /\ parvo_frame = IF color_mode = "grey" THEN grey2color(parvo0) ELSE parvo0
            /\ (pc = "done" /\ get_magno = TRUE) =>
                  IsThreeChannel(IF get_parvo = TRUE THEN result.items[2] ELSE result)

C4_Witness ==
    /\ op = "get_opl_frame" /\ pc = "done"
    /\ color_mode = "color" /\ get_parvo = TRUE /\ get_magno = TRUE
    /\ ndim(result.items[1]) = 2
    /\ result.items[1] = calls[2][2]
    /\ IsThreeChannel(result.items[2])

\* C5: a successful get_opl_frame returns the pair (parvo, magno) when both
\* flags are true, the parvo frame alone when only get_parvo is true, the
\* magno frame alone when only get_magno is true, and None when both are
\* false.
C5_ReturnShapeByFlags ==
    (op = "get_opl_frame" /\ pc = "done") =>
        /\ (get_parvo /\ get_magno) =>
              /\ result.type = "tuple"
              /\ Len(result.items) = 2
              /\ result.items[1] = parvo_frame
              /\ result.items[2] = magno_frame
        /\ (get_parvo /\ ~get_magno) => (result.type = "ndarray" /\ result = parvo_frame)
        /\ (~get_parvo /\ get_magno) => (result.type = "ndarray" /\ result = magno_frame)
        /\ (~get_parvo /\ ~get_magno) => result = None

C5_Witness ==
    /\ op = "get_opl_frame" /\ pc = "done"
    /\ get_parvo /\ get_magno
    /\ result.type = "tuple"
    /\ result.items[1] # result.items[2]

\* C6: a successful get_opl_frames on N frames returns a pair of lists when
\* both flags are true and a single list when one flag is true, and every
\* returned list has exactly N elements.
C6_ListsOfLengthN ==
    (InFrames /\ pc = "done") =>
        LET n == Len(frames.items)
        IN  /\ (get_parvo /\ get_magno) =>
                  /\ result.type = "tuple"
                  /\ Len(result.items) = 2
                  /\ \A j \in 1..2 : /\ result.items[j].type = "list"
                                     /\ Len(result.items[j].items) = n
            /\ (get_parvo # get_magno) =>
                  /\ result.type = "list"
                  /\ Len(result.items) = n

C6_Witness ==
    /\ InFrames /\ pc = "done"
    /\ get_parvo /\ ~get_magno
    /\ Len(frames.items) = 2
    /\ result.type = "list" /\ Len(result.items) = 2

\* C7: grey2color on a 2-D array g of shape (H, W) returns an array of shape
\* (H, W, 3) with out[i][j][c] = g[i][j] for every i, j and c in 0..2, and
\* leaves g as it was.
C7_Grey2ColorDuplicates ==
    [][(pc = "grey2color" /\ ndim(frame) = 2) =>
          LET H == frame.shape[1]
              W == frame.shape[2]
          IN  /\ pc' = "done"
              /\ frame' = frame
              /\ result'.type = "ndarray"
              /\ result'.shape = <<H, W, 3>>
              /\ DOMAIN result'.data = Indices(<<H, W, 3>>)
              /\ \A a \in 0..(H - 1), b \in 0..(W - 1), c \in 0..2 :
                    result'.data[<<a, b, c>>] = frame.data[<<a, b>>]]_vars

C7_Witness ==
    /\ op = "grey2color" /\ pc = "done"
    /\ frame.shape = <<1, 2>>
    /\ frame.data[<<0, 0>>] # frame.data[<<0, 1>>]
    /\ result.shape = <<1, 2, 3>>
    /\ result.data[<<0, 1, 2>>] = frame.data[<<0, 1>>]

\* C8: grey2color on an array whose rank is not 2 raises ValueError and
\* returns nothing.
C8_Grey2ColorRankCheck ==
    (op = "grey2color" /\ pc # "grey2color" /\ ndim(frame) # 2) =>
        /\ pc = "raised"
        /\ exc = "ValueError"
        /\ result = Unbound

C8_Witness ==
    /\ op = "grey2color" /\ pc = "raised" /\ exc = "ValueError"
    /\ ndim(frame) = 3

\* C9: init_retina raises ValueError, constructing nothing, exactly when
\* size does not have two elements; for a size (h, w) it does not raise and
\* calls the constructor once, with (w, h).
C9_InitRetinaSize ==
    (op = "init_retina" /\ pc # "init_retina") =>
        IF Len(size) # 2
          THEN /\ pc = "raised" /\ exc = "ValueError"
               /\ calls = <<>>
               /\ result = Unbound
          ELSE /\ pc = "done" /\ exc = "none"
               /\ calls = << <<"createRetina", <<size[2], size[1]>>>> >>
               /\ result = Retina(<<size[2], size[1]>>)

C9_Witness ==
    /\ op = "init_retina" /\ pc = "done"
    /\ size = <<1, 2>>
    /\ calls[1][2] = <<2, 1>>

\* C10: a rejected frames argument leaves the handle untouched; a failure
\* while frame k is processed ends the call with that failure and no result,
\* the handle having been fed frames 0..k-1 successfully, then frame k, and
\* nothing after it.  A failed run is never followed by another call.
C10_FailureAccounted ==
    InFrames =>
        /\ (exc # "none") => (pc = "raised" /\ result = Unbound)
        /\ (exc # "none" /\ ~ValidFrames) => calls = <<>>
        /\ \A k \in 1..Len(calls) :
              (IsRun(calls[k]) /\ ~calls[k][3]) => (k = Len(calls) /\ exc = "LibError")
        /\ (exc # "none" /\ ValidFrames) =>
              LET runs == RunEntries
                  n == Len(runs)
              IN  /\ n = i /\ n >= 1
                  /\ \A m \in 1..n : runs[m][2] = frames.items[m]
                  /\ \A m \in 1..(n - 1) : runs[m][3]
                  /\ exc = IF runs[n][3] THEN "ValueError" ELSE "LibError"

C10_Witness ==
    /\ InFrames /\ pc = "raised" /\ exc = "ValueError"
    /\ ValidFrames
    /\ Len(frames.items) = 2
    /\ i = 1
    /\ Len(RunEntries) = 1

====
